---- MODULE Spec2Model ----
(***************************************************************************)
(* State/broadcast core of the iOS Simulator MCP dashboard                 *)
(* (src/src/ios_simulator_mcp/dashboard.py): the DashboardState store, the *)
(* fire-and-forget _broadcast tasks it schedules on the asyncio loop, and  *)
(* the handle_websocket coroutine that registers viewers.                  *)
(*                                                                         *)
(* Python strings that the code inspects (result, error, last_screenshot)  *)
(* are sequences of one-character strings, so that split / startswith /    *)
(* strip / slicing are computed and not assumed.  Tool names are only      *)
(* compared for equality and stay TLA+ strings.  ToolCall.timestamp,       *)
(* ToolCall.arguments, time_str and uptime are opaque to every decision of *)
(* the code and are left out; duration_ms, a wall-clock difference, is an  *)
(* input of complete_tool_call.                                            *)
(***************************************************************************)
EXTENDS Integers, Sequences, FiniteSets, TLC

(***************************************************************************)
(* Bounds of the model.                                                    *)
(***************************************************************************)
MaxChannels == 3      \* WebSocketResponse objects ever created
MaxViewers == 2       \* of them, those that connect in the concurrent specification
MaxBegins == 2        \* add_tool_call calls in the concurrent specification
MaxTasks == 2         \* broadcast tasks ever created
MaxCap == 2           \* largest max_calls given to the constructor
MaxDur == 0           \* largest duration_ms value
MaxLogBegins == 4     \* add_tool_call calls in the retention specification
MaxLogCalls == 6      \* calls of the mutation API in the retention specification
MaxApiCalls == 4      \* calls of the mutation API in the completion specification
MaxFanTasks == 1      \* broadcast tasks in the fan-out specification
MaxOpsCalls == 4      \* calls of the mutation API in the operations specification
MaxSnapBegins == 52   \* add_tool_call calls in the snapshot specification
MaxSnapDeltas == 1    \* of them, those made after the viewer connected
MaxSlowTasks == 2     \* broadcast tasks in the slow-channel specification
MaxOpsBacklog == 1    \* broadcast tasks not yet ended when the operations
                      \* specification calls the mutation API
MaxSyncCalls == 2     \* calls of the mutation API in the scheduling specification
MaxEvictBegins == 3   \* add_tool_call calls in the eviction specification
MaxEvictCalls == 5    \* calls of the mutation API in the eviction specification
MaxOver == 2          \* characters beyond the cap in the longest result

(***************************************************************************)
(* Program constants.                                                      *)
(***************************************************************************)
STATE_CALLS == 50     \* get_state: self.tool_calls[-50:]
RESULT_CAP == 500     \* to_dict: self.result[:500]
DEFAULT_MAX_CALLS == 100  \* __init__: max_calls: int = 100
CLIENT_CALLS == 100   \* handleMessage: if (toolCalls.length > 100) toolCalls.pop()

\* None for a str | None value: a sequence no text equals (texts are sequences of
\* one-character strings)
None == <<"None">>
\* None for duration_ms; a set duration d is <<d>>
NoDuration == <<>>
\* a dict is the set of its <<key, value>> items; {} is what device_info and
\* wda_status start with
EmptyDict == {}
Channels == 1..MaxChannels
Durations == 0..MaxDur

(***************************************************************************)
(* String literals of the code and the texts used as inputs.               *)
(***************************************************************************)
PrefixLit == <<"S","c","r","e","e","n","s","h","o","t"," ","s","a","v","e","d",":">>
SepLit == <<":", " ">>
NL == "\n"
Whitespace == {" ", "\n", "\t", "\r"}

P_a == <<"/","t","m","p","/","a",".","p","n","g">>
P_b == <<"/","b">>
P_c == <<"/","c">>
P_d == <<"/","d">>
P_e == <<"/","e">>
R_ok == <<"o","k">>
E_boom == <<"b","o","o","m">>
\* "Screenshot saved: /tmp/a.png\n"
R_shot_a == PrefixLit \o <<" ">> \o P_a \o <<NL>>
\* "log\nScreenshot saved:  /b \nScreenshot saved: /c"
R_shot_b == <<"l","o","g",NL>> \o PrefixLit \o <<" "," ">> \o P_b \o <<" ",NL>> \o PrefixLit \o <<" ">> \o P_c
\* "Screenshot saved:/d"   (the prefix without the ": " separator)
R_nosep == PrefixLit \o P_d
\* "Screenshot saved:/d: /e"  (the separator occurs later in the line)
R_latesep == PrefixLit \o P_d \o SepLit \o P_e

(***************************************************************************)
(* Python string and list primitives used by the code.                     *)
(***************************************************************************)
\* bool(s) for s: str | None
Truthy(s) == s # None /\ s # <<>>

\* s.startswith(p)
StartsWith(s, p) == Len(s) >= Len(p) /\ SubSeq(s, 1, Len(p)) = p

\* s.find(sep): least 1-based index at which sep occurs in s, 0 when it does not
Find(s, sep) ==
    LET hits == {i \in 1..(Len(s) - Len(sep) + 1) : SubSeq(s, i, i + Len(sep) - 1) = sep}
    IN  IF hits = {} THEN 0 ELSE CHOOSE i \in hits : \A j \in hits : i <= j

\* s.split(sep, 1)
SplitOnce(s, sep) ==
    LET k == Find(s, sep)
    IN  IF k = 0 THEN <<s>>
        ELSE <<SubSeq(s, 1, k - 1), SubSeq(s, k + Len(sep), Len(s))>>

RECURSIVE Split(_, _)
\* s.split(sep)
Split(s, sep) ==
    LET k == Find(s, sep)
    IN  IF k = 0 THEN <<s>>
        ELSE <<SubSeq(s, 1, k - 1)>> \o Split(SubSeq(s, k + Len(sep), Len(s)), sep)

\* s.strip()
Strip(s) ==
    LET keep == {i \in 1..Len(s) : s[i] \notin Whitespace}
    IN  IF keep = {} THEN <<>>
        ELSE SubSeq(s, CHOOSE i \in keep : \A j \in keep : i <= j,
                       CHOOSE i \in keep : \A j \in keep : i >= j)

\* xs[-n:] for n >= 0 (Python: -0 is 0, so xs[-0:] is the whole list)
SliceLast(xs, n) ==
    IF n = 0 \/ Len(xs) <= n THEN xs
    ELSE SubSeq(xs, Len(xs) - n + 1, Len(xs))

\* s[:n]
SliceFirst(s, n) == IF Len(s) <= n THEN s ELSE SubSeq(s, 1, n)

(***************************************************************************)
(* State.                                                                  *)
(***************************************************************************)
VARIABLES
    max_calls,         \* DashboardState.max_calls
    calls,             \* every ToolCall object ever created, by id (handles stay valid)
    tool_calls,        \* DashboardState.tool_calls: the ids of the retained ToolCalls
    call_counter,      \* DashboardState.call_counter
    websockets,        \* DashboardState.websockets
    device_info,       \* DashboardState.device_info
    wda_status,        \* DashboardState.wda_status
    last_screenshot,   \* DashboardState.last_screenshot
    recording_active,  \* DashboardState.recording_active
    tasks,             \* the _broadcast tasks created by asyncio.create_task, in creation order
    inbox,             \* per channel, the messages written to it, in order, each with
                       \* the task that wrote it (0: handle_websocket)
    ws_pc,             \* per channel, the position of its handle_websocket coroutine
    joined,            \* per channel, the number of broadcast tasks that had been created
                       \* when it was added to websockets (history)
    lastCall,          \* the last call of the mutation API: its arguments (arg: the
                       \* dict given to a setter), whether it raised, and the
                       \* number of calls made so far (history)
    response,          \* the body of the last response of handle_api_state, as a
                       \* sequence of at most one element (<<>>: none yet)
    left               \* per channel, how: whether websockets held it when its
                       \* handle_websocket ran the finally clause, "" (not run),
                       \* "present" or "absent"; tasks: the number of broadcast
                       \* tasks that had been created by then (history)

vars == <<max_calls, calls, tool_calls, call_counter, websockets, device_info,
          wda_status, last_screenshot, recording_active, tasks, inbox, ws_pc, joined,
          lastCall, response, left>>

store == <<max_calls, calls, tool_calls, call_counter, device_info, wda_status,
           last_screenshot, recording_active>>

(***************************************************************************)
(* ToolCall.                                                               *)
(***************************************************************************)
\* ToolCall(id=..., tool_name=...) with the dataclass defaults
ToolCall(id, tool_name) ==
    [id |-> id, tool_name |-> tool_name, status |-> "pending",
     result |-> None, error |-> None, duration_ms |-> NoDuration]

\* to_dict with "self.result" in the place of the conditional expression
to_dict_Uncut(c) ==
    [id |-> c.id, tool_name |-> c.tool_name, status |-> c.status,
     result |-> c.result, error |-> c.error, duration_ms |-> c.duration_ms]

\* ToolCall.to_dict
to_dict(c) ==
    [id |-> c.id, tool_name |-> c.tool_name, status |-> c.status,
     result |-> IF Truthy(c.result) /\ Len(c.result) > RESULT_CAP
                THEN SliceFirst(c.result, RESULT_CAP) ELSE c.result,
     error |-> c.error, duration_ms |-> c.duration_ms]

(***************************************************************************)
(* DashboardState: the store.                                              *)
(***************************************************************************)
\* asyncio.create_task(self._broadcast(message)): the message is built by the
\* caller, the coroutine has not run yet
create_task(type, data) ==
    Append(tasks, [type |-> type, data |-> data, pc |-> "ready", it_size |-> 0,
                   it_start |-> {}, yielded |-> {}, cur |-> 0, dead |-> {}])

\* Trim as "self.tool_calls[:self.max_calls]" would have it: the oldest are kept
Trim_KeepsOldest(xs) == IF Len(xs) > max_calls THEN SubSeq(xs, 1, max_calls) ELSE xs

\* the "Trim old calls" statement of add_tool_call
Trim(xs) == IF Len(xs) > max_calls THEN SliceLast(xs, max_calls) ELSE xs

\* get_state with "self.tool_calls" in the place of "self.tool_calls[-50:]"
get_state_Unsliced ==
    [tool_calls |-> [i \in 1..Len(tool_calls) |-> to_dict(calls[tool_calls[i]])],
     device_info |-> device_info,
     wda_status |-> wda_status,
     last_screenshot |-> last_screenshot,
     recording_active |-> recording_active,
     total_calls |-> call_counter]

\* get_state with "self.tool_calls[:50]" in the place of "self.tool_calls[-50:]"
get_state_First50 ==
    [tool_calls |-> [i \in 1..Len(SliceFirst(tool_calls, STATE_CALLS)) |->
                        to_dict(calls[SliceFirst(tool_calls, STATE_CALLS)[i]])],
     device_info |-> device_info,
     wda_status |-> wda_status,
     last_screenshot |-> last_screenshot,
     recording_active |-> recording_active,
     total_calls |-> call_counter]

\* DashboardState.get_state
get_state ==
    [tool_calls |-> [i \in 1..Len(SliceLast(tool_calls, STATE_CALLS)) |->
                        to_dict(calls[SliceLast(tool_calls, STATE_CALLS)[i]])],
     device_info |-> device_info,
     wda_status |-> wda_status,
     last_screenshot |-> last_screenshot,
     recording_active |-> recording_active,
     total_calls |-> call_counter]

\* add_tool_call as "id=len(self.tool_calls) + 1" would have it
add_tool_call_IdFromLength(tool_name) ==
    LET call == ToolCall(Len(tool_calls) + 1, tool_name)
    IN  /\ call_counter' = call_counter + 1
        /\ calls' = Append(calls, call)
        /\ tool_calls' = Trim(Append(tool_calls, call.id))
        /\ tasks' = create_task("tool_call", to_dict(call))
        /\ lastCall' = [op |-> "add_tool_call", id |-> call.id, result |-> None,
                        error |-> None, arg |-> EmptyDict, raised |-> FALSE,
                        seq |-> lastCall.seq + 1]
        /\ UNCHANGED <<max_calls, websockets, device_info, wda_status,
                       last_screenshot, recording_active, inbox, ws_pc, joined, response, left>>

\* DashboardState.add_tool_call
add_tool_call(tool_name) ==
    LET call == ToolCall(call_counter + 1, tool_name)
    IN  /\ call_counter' = call_counter + 1
        /\ calls' = Append(calls, call)
        /\ tool_calls' = Trim(Append(tool_calls, call.id))
        /\ tasks' = create_task("tool_call", to_dict(call))
        /\ lastCall' = [op |-> "add_tool_call", id |-> call.id, result |-> None,
                        error |-> None, arg |-> EmptyDict, raised |-> FALSE,
                        seq |-> lastCall.seq + 1]
        /\ UNCHANGED <<max_calls, websockets, device_info, wda_status,
                       last_screenshot, recording_active, inbox, ws_pc, joined, response, left>>

\* the assignments of complete_tool_call with "call.result = result" made
\* before the test of error
Outcome_ResultAlways(c, result, error, d) ==
    IF Truthy(error)
    THEN [c EXCEPT !.duration_ms = <<d>>, !.status = "error", !.error = error,
                   !.result = result]
    ELSE [c EXCEPT !.duration_ms = <<d>>, !.status = "success", !.result = result]

\* the status / result / error assignments of complete_tool_call
Outcome(c, result, error, d) ==
    IF Truthy(error)
    THEN [c EXCEPT !.duration_ms = <<d>>, !.status = "error", !.error = error]
    ELSE [c EXCEPT !.duration_ms = <<d>>, !.status = "success", !.result = result]

\* the lines of result that the "Track screenshots" loop stops at
MarkerLines(result) ==
    LET lines == Split(result, <<NL>>)
    IN  SelectSeq(lines, LAMBDA line : StartsWith(line, PrefixLit))

\* "Track screenshots": the loop is entered
TracksScreenshot(c, result) ==
    c.tool_name = "get_screenshot" /\ Truthy(result) /\ MarkerLines(result) # <<>>

\* line.split(": ", 1)[1] raises IndexError when the line has no ": "
ScreenshotRaises(c, result) ==
    TracksScreenshot(c, result) /\ Len(SplitOnce(MarkerLines(result)[1], SepLit)) < 2

\* the value "Track screenshots" leaves in self.last_screenshot
TrackScreenshot(c, result) ==
    IF TracksScreenshot(c, result) /\ ~ScreenshotRaises(c, result)
    THEN Strip(SplitOnce(MarkerLines(result)[1], SepLit)[2])
    ELSE last_screenshot

\* "Track recording" without the tests of call.status
TrackRecording_IgnoresStatus(c) ==
    IF c.tool_name = "start_recording" THEN TRUE
    ELSE IF c.tool_name = "stop_recording" THEN FALSE
    ELSE recording_active

\* the value "Track recording" leaves in self.recording_active
TrackRecording(c) ==
    IF c.tool_name = "start_recording" /\ c.status = "success" THEN TRUE
    ELSE IF c.tool_name = "stop_recording" /\ c.status = "success" THEN FALSE
    ELSE recording_active

\* DashboardState.complete_tool_call, called with the handle of ToolCall id.
\* An IndexError in "Track screenshots" leaves the function after the ToolCall
\* was modified and before recording is tracked and the broadcast is created.
complete_tool_call(id, result, error, d) ==
    LET call == Outcome(calls[id], result, error, d)
        raised == ScreenshotRaises(call, result)
    IN  /\ calls' = [calls EXCEPT ![id] = call]
        /\ last_screenshot' = TrackScreenshot(call, result)
        /\ recording_active' = IF raised THEN recording_active ELSE TrackRecording(call)
        /\ tasks' = IF raised THEN tasks ELSE create_task("tool_complete", to_dict(call))
        /\ lastCall' = [op |-> "complete_tool_call", id |-> id, result |-> result,
                        error |-> error, arg |-> EmptyDict, raised |-> raised,
                        seq |-> lastCall.seq + 1]
        /\ UNCHANGED <<max_calls, tool_calls, call_counter, websockets, device_info,
                       wda_status, inbox, ws_pc, joined, response, left>>

\* update_device_info as "self.device_info.update(info)" would have it
update_device_info_Merge(info) ==
    /\ device_info' = {item \in device_info : \A new \in info : new[1] # item[1]} \cup info
    /\ tasks' = create_task("device_info", info)
    /\ lastCall' = [op |-> "update_device_info", id |-> 0, result |-> None,
                    error |-> None, arg |-> info, raised |-> FALSE,
                    seq |-> lastCall.seq + 1]
    /\ UNCHANGED <<max_calls, calls, tool_calls, call_counter, websockets, wda_status,
                   last_screenshot, recording_active, inbox, ws_pc, joined, response, left>>

\* DashboardState.update_device_info
update_device_info(info) ==
    /\ device_info' = info
    /\ tasks' = create_task("device_info", info)
    /\ lastCall' = [op |-> "update_device_info", id |-> 0, result |-> None,
                    error |-> None, arg |-> info, raised |-> FALSE,
                    seq |-> lastCall.seq + 1]
    /\ UNCHANGED <<max_calls, calls, tool_calls, call_counter, websockets, wda_status,
                   last_screenshot, recording_active, inbox, ws_pc, joined, response, left>>

\* DashboardState.update_wda_status
update_wda_status(status) ==
    /\ wda_status' = status
    /\ tasks' = create_task("wda_status", status)
    /\ lastCall' = [op |-> "update_wda_status", id |-> 0, result |-> None,
                    error |-> None, arg |-> status, raised |-> FALSE,
                    seq |-> lastCall.seq + 1]
    /\ UNCHANGED <<max_calls, calls, tool_calls, call_counter, websockets, device_info,
                   last_screenshot, recording_active, inbox, ws_pc, joined, response, left>>

(***************************************************************************)
(* DashboardState._broadcast, one task per create_task.                    *)
(*                                                                         *)
(* pc: "ready"   created, its coroutine has not run yet;                   *)
(*     "sending" inside `await ws.send_str(msg_str)` of the for loop, for  *)
(*               the channel cur;                                          *)
(*     "done"    returned;                                                 *)
(*     "crashed" ended by the RuntimeError that `for ws in self.websockets`*)
(*               raises when the set changed size during the iteration.    *)
(* The asyncio loop runs ready callbacks first-in first-out, so tasks take *)
(* their first step in creation order; a task suspended in a send resumes  *)
(* whenever the transport lets it.  A send that returns without suspending *)
(* is the run in which nothing else steps before the task's next step.     *)
(* The message is written to the channel when send_str is called.          *)
(* The set iterator yields the members of the live set in hash order, an   *)
(* order the program does not control: any member not yet yielded may come *)
(* next, and a member added during the iteration (at unchanged size) may   *)
(* land in a slot the iterator has passed and never be yielded.            *)
(***************************************************************************)
\* the task as it enters the for statement: a task taking its first step
\* creates the iterator over self.websockets
Entered(t) ==
    IF tasks[t].pc = "ready"
    THEN [tasks[t] EXCEPT !.it_size = Cardinality(websockets), !.it_start = websockets]
    ELSE tasks[t]

\* the task once its coroutine has ended: its locals (the iterator, dead_ws) are gone
Ended(tk, how) ==
    [tk EXCEPT !.pc = how, !.type = "", !.data = None,
               !.it_size = 0, !.it_start = {}, !.yielded = {}, !.cur = 0,
               !.dead = {}]

\* the task may take a step now
Runnable(t) ==
    \/ tasks[t].pc = "sending"
    \/ tasks[t].pc = "ready" /\ \A u \in 1..(t - 1) : tasks[u].pc # "ready"

\* the members the iterator can still yield
Remaining(t) == websockets \ tasks[t].yielded

\* "if not self.websockets: return"
broadcast_empty(t) ==
    /\ tasks[t].pc = "ready" /\ Runnable(t)
    /\ websockets = {}
    /\ tasks' = [tasks EXCEPT ![t] = Ended(tasks[t], "done")]
    /\ UNCHANGED <<store, websockets, inbox, ws_pc, joined, lastCall, response, left>>

\* broadcast_send as it would be if the message held the ToolCall object and
\* to_dict ran at the send
broadcast_send_LateSerialize(t, ws, ok) ==
    /\ Runnable(t)
    /\ websockets # {}
    /\ Cardinality(websockets) = Entered(t).it_size
    /\ ws \in Remaining(t)
    /\ tasks' = [tasks EXCEPT ![t] =
                    [Entered(t) EXCEPT !.pc = "sending",
                                       !.yielded = @ \cup {ws},
                                       !.cur = ws,
                                       !.dead = IF ok THEN @ ELSE @ \cup {ws}]]
    /\ inbox' = IF ok
                THEN [inbox EXCEPT ![ws] = Append(@, [type |-> tasks[t].type,
                                                       data |-> IF tasks[t].type \in {"tool_call", "tool_complete"}
                                                                THEN to_dict(calls[tasks[t].data.id])
                                                                ELSE tasks[t].data,
                                                       task |-> t])]
                ELSE inbox
    /\ UNCHANGED <<store, websockets, ws_pc, joined, lastCall, response, left>>

\* one turn of the for loop: the iterator yields ws, `await ws.send_str(msg_str)`
\* writes the message (ok) or raises, and an exception puts ws in dead_ws
broadcast_send(t, ws, ok) ==
    /\ Runnable(t)
    /\ websockets # {}
    /\ Cardinality(websockets) = Entered(t).it_size
    /\ ws \in Remaining(t)
    /\ tasks' = [tasks EXCEPT ![t] =
                    [Entered(t) EXCEPT !.pc = "sending",
                                       !.yielded = @ \cup {ws},
                                       !.cur = ws,
                                       !.dead = IF ok THEN @ ELSE @ \cup {ws}]]
    /\ inbox' = IF ok
                THEN [inbox EXCEPT ![ws] = Append(@, [type |-> tasks[t].type,
                                                       data |-> tasks[t].data,
                                                       task |-> t])]
                ELSE inbox
    /\ UNCHANGED <<store, websockets, ws_pc, joined, lastCall, response, left>>

\* the iterator is exhausted: "self.websockets -= dead_ws" and return
broadcast_finish(t) ==
    /\ tasks[t].pc = "sending"
    /\ Cardinality(websockets) = tasks[t].it_size
    /\ Remaining(t) \subseteq (websockets \ tasks[t].it_start)
    /\ websockets' = websockets \ tasks[t].dead
    /\ tasks' = [tasks EXCEPT ![t] = Ended(tasks[t], "done")]
    /\ UNCHANGED <<store, inbox, ws_pc, joined, lastCall, response, left>>

\* the for statement asks the iterator for the next member after the set changed
\* size: RuntimeError, raised outside the try, ends the task before
\* "self.websockets -= dead_ws"
broadcast_crash(t) ==
    /\ tasks[t].pc = "sending"
    /\ Cardinality(websockets) # tasks[t].it_size
    /\ tasks' = [tasks EXCEPT ![t] = Ended(tasks[t], "crashed")]
    /\ UNCHANGED <<store, websockets, inbox, ws_pc, joined, lastCall, response, left>>

(***************************************************************************)
(* handle_websocket, one coroutine per WebSocketResponse.                  *)
(*                                                                         *)
(* ws_pc: "new"    the object does not exist yet or is in ws.prepare;      *)
(*        "open"   in the `async for msg in ws` loop;                      *)
(*        "closed" left through the finally clause;                        *)
(*        "failed" ended by an exception of send_json, before the try.     *)
(***************************************************************************)
\* from "dashboard_state.websockets.add(ws)" to the send of the init message:
\* no await lies between the add, get_state() and the write of the message
handle_websocket(ws, ok) ==
    /\ ws_pc[ws] = "new"
    /\ websockets' = websockets \cup {ws}
    /\ inbox' = IF ok
                THEN [inbox EXCEPT ![ws] = Append(@, [type |-> "init", data |-> get_state,
                                                       task |-> 0])]
                ELSE inbox
    /\ ws_pc' = [ws_pc EXCEPT ![ws] = IF ok THEN "open" ELSE "failed"]
    /\ joined' = [joined EXCEPT ![ws] = Len(tasks)]
    /\ UNCHANGED <<store, tasks, lastCall, response, left>>

\* the finally clause as "websockets.remove(ws)" would have it: KeyError when
\* ws is not in the set
websocket_closed_Remove(ws) ==
    /\ ws_pc[ws] = "open"
    /\ websockets' = websockets \ {ws}
    /\ ws_pc' = [ws_pc EXCEPT ![ws] = IF ws \in websockets THEN "closed" ELSE "failed"]
    /\ left' = [left EXCEPT ![ws] = [how |-> IF ws \in websockets THEN "present"
                                              ELSE "absent",
                                      tasks |-> Len(tasks)]]
    /\ UNCHANGED <<store, tasks, inbox, joined, lastCall, response>>

\* the message loop ends (the viewer went away): "finally: websockets.discard(ws)"
websocket_closed(ws) ==
    /\ ws_pc[ws] = "open"
    /\ websockets' = websockets \ {ws}
    /\ ws_pc' = [ws_pc EXCEPT ![ws] = "closed"]
    /\ left' = [left EXCEPT ![ws] = [how |-> IF ws \in websockets THEN "present"
                                              ELSE "absent",
                                      tasks |-> Len(tasks)]]
    /\ UNCHANGED <<store, tasks, inbox, joined, lastCall, response>>

\* handle_api_state: web.json_response(dashboard_state.get_state())
handle_api_state ==
    /\ response' = <<get_state>>
    /\ UNCHANGED <<store, websockets, tasks, inbox, ws_pc, joined, lastCall, left>>

(***************************************************************************)
(* Initial state: DashboardState.__init__ and no connection yet.           *)
(***************************************************************************)
InitState(caps) ==
    /\ max_calls \in caps
    /\ calls = <<>>
    /\ tool_calls = <<>>
    /\ call_counter = 0
    /\ websockets = {}
    /\ device_info = EmptyDict
    /\ wda_status = EmptyDict
    /\ last_screenshot = None
    /\ recording_active = FALSE
    /\ tasks = <<>>
    /\ inbox = [ws \in Channels |-> <<>>]
    /\ ws_pc = [ws \in Channels |-> "new"]
    /\ joined = [ws \in Channels |-> 0]
    /\ lastCall = [op |-> "init", id |-> 0, result |-> None, error |-> None,
                   arg |-> EmptyDict, raised |-> FALSE, seq |-> 0]
    /\ response = <<>>
    /\ left = [ws \in Channels |-> [how |-> "", tasks |-> 0]]

(***************************************************************************)
(* The concurrent specification: viewers connect and leave while records   *)
(* are begun and completed and the broadcast tasks run.  Every transport   *)
(* is healthy here (no send raises).                                       *)
(***************************************************************************)
Init == InitState(1..MaxCap)

Begin ==
    /\ call_counter < MaxBegins /\ Len(tasks) < MaxTasks
    /\ add_tool_call("tap")

Complete ==
    /\ Len(tasks) < MaxTasks
    /\ \E id \in 1..call_counter, e \in {None, E_boom}, d \in Durations :
          complete_tool_call(id, R_ok, e, d)

BroadcastEmpty == \E t \in 1..Len(tasks) : broadcast_empty(t)

BroadcastSend == \E t \in 1..Len(tasks), ws \in Channels : broadcast_send(t, ws, TRUE)

BroadcastFinish == \E t \in 1..Len(tasks) : broadcast_finish(t)

BroadcastCrash == \E t \in 1..Len(tasks) : broadcast_crash(t)

Connect == \E ws \in 1..MaxViewers : handle_websocket(ws, TRUE)

Disconnect == \E ws \in Channels : websocket_closed(ws)

Next ==
    \/ Begin
    \/ Complete
    \/ BroadcastEmpty
    \/ BroadcastSend
    \/ BroadcastFinish
    \/ BroadcastCrash
    \/ Connect
    \/ Disconnect

Spec == Init /\ [][Next]_vars

(***************************************************************************)
(* The retention specification: no viewer is connected; records are begun  *)
(* past the capacity given to the constructor and completed, and the       *)
(* broadcast tasks find the registry empty.                                *)
(***************************************************************************)
InitLog == InitState(0..MaxCap)

LogBegin ==
    /\ call_counter < MaxLogBegins /\ lastCall.seq < MaxLogCalls
    /\ add_tool_call("tap")

LogComplete ==
    /\ lastCall.seq < MaxLogCalls
    /\ \E id \in 1..call_counter, d \in Durations :
          \/ complete_tool_call(id, R_ok, None, d)
          \/ complete_tool_call(id, None, E_boom, d)

NextLog ==
    \/ LogBegin
    \/ LogComplete
    \/ BroadcastEmpty

SpecLog == InitLog /\ [][NextLog]_vars

(***************************************************************************)
(* The completion specification: no viewer is connected; the store has the *)
(* default capacity; up to two records of any tool name are begun and      *)
(* completed, any number of times, with any result and error text.         *)
(***************************************************************************)
ToolNames == {"get_screenshot", "start_recording", "stop_recording", "tap"}
ResultTexts == {None, <<>>, R_ok, R_shot_a, R_shot_b, R_nosep, R_latesep}
ErrorTexts == {None, <<>>, E_boom}

InitComplete == InitState({DEFAULT_MAX_CALLS})

ApiBegin ==
    /\ call_counter < MaxBegins /\ lastCall.seq < MaxApiCalls
    /\ \E n \in ToolNames : add_tool_call(n)

ApiComplete ==
    /\ lastCall.seq < MaxApiCalls
    /\ \E id \in 1..call_counter, r \in ResultTexts, e \in ErrorTexts, d \in Durations :
          complete_tool_call(id, r, e, d)

NextComplete ==
    \/ ApiBegin
    \/ ApiComplete
    \/ BroadcastEmpty

SpecComplete == InitComplete /\ [][NextComplete]_vars

(***************************************************************************)
(* The fan-out specification: up to MaxChannels viewers connect and leave, *)
(* any send may raise, and the setters schedule the broadcasts.            *)
(***************************************************************************)
Infos == {{<<"name", "iPhone">>}, {<<"udid", "A1">>}}

FanSetDeviceInfo ==
    /\ Len(tasks) < MaxFanTasks
    /\ \E info \in Infos : update_device_info(info)

FanSetWdaStatus ==
    /\ Len(tasks) < MaxFanTasks
    /\ \E status \in Infos : update_wda_status(status)

FanConnect == \E ws \in Channels : handle_websocket(ws, TRUE)

FanSend ==
    \E t \in 1..Len(tasks), ws \in Channels, ok \in BOOLEAN : broadcast_send(t, ws, ok)

NextFan ==
    \/ FanSetDeviceInfo
    \/ FanSetWdaStatus
    \/ FanConnect
    \/ Disconnect
    \/ BroadcastEmpty
    \/ FanSend
    \/ BroadcastFinish
    \/ BroadcastCrash

SpecFan == InitComplete /\ [][NextFan]_vars

(***************************************************************************)
(* The operations specification: every operation of the store, of the      *)
(* registry and of the pull interface, with one viewer and a few calls of  *)
(* the mutation API.                                                       *)
(***************************************************************************)
OpsNames == {"start_recording", "stop_recording", "tap"}

\* the broadcast tasks that have not ended
Backlog == {t \in 1..Len(tasks) : tasks[t].pc \in {"ready", "sending"}}

\* the operations specification may call the mutation API now
OpsMayCall == lastCall.seq < MaxOpsCalls /\ Cardinality(Backlog) < MaxOpsBacklog

OpsBegin ==
    /\ call_counter < MaxBegins /\ OpsMayCall
    /\ \E n \in OpsNames : add_tool_call(n)

OpsComplete ==
    /\ OpsMayCall
    /\ \E id \in 1..call_counter, e \in {None, E_boom}, d \in Durations :
          complete_tool_call(id, R_ok, e, d)

OpsSetDeviceInfo ==
    /\ OpsMayCall
    /\ \E info \in Infos : update_device_info(info)

OpsSetWdaStatus ==
    /\ OpsMayCall
    /\ \E status \in Infos : update_wda_status(status)

OpsConnect == handle_websocket(1, TRUE)

ApiState == handle_api_state

NextOps ==
    \/ OpsBegin
    \/ OpsComplete
    \/ OpsSetDeviceInfo
    \/ OpsSetWdaStatus
    \/ OpsConnect
    \/ Disconnect
    \/ ApiState
    \/ BroadcastEmpty
    \/ BroadcastSend
    \/ BroadcastFinish
    \/ BroadcastCrash

SpecOps == InitComplete /\ [][NextOps]_vars

(***************************************************************************)
(* The snapshot specification: records are begun past the 50 that          *)
(* get_state returns, under a capacity below and a capacity above 50,      *)
(* while a viewer connects and leaves and the pull interface is queried.   *)
(***************************************************************************)
InitSnapshot == InitState({MaxCap, DEFAULT_MAX_CALLS})

SnapBegin ==
    /\ call_counter < MaxSnapBegins /\ Cardinality(Backlog) < MaxOpsBacklog
    /\ ws_pc[1] = "new" \/ Len(tasks) - joined[1] < MaxSnapDeltas
    /\ add_tool_call("tap")

NextSnapshot ==
    \/ SnapBegin
    \/ OpsConnect
    \/ Disconnect
    \/ ApiState
    \/ BroadcastEmpty
    \/ BroadcastSend
    \/ BroadcastFinish
    \/ BroadcastCrash

SpecSnapshot == InitSnapshot /\ [][NextSnapshot]_vars

(***************************************************************************)
(* The slow-channel specification: the viewers connect before the first    *)
(* mutation and none leaves; every send succeeds, but a send to a channel  *)
(* of Hung never returns (the peer does not read and the transport's       *)
(* buffer is full), so a task suspended in it takes no further step.       *)
(* Every other task step is taken eventually: the event loop runs every    *)
(* callback that is ready.                                                 *)
(***************************************************************************)
Hung == {1}

\* the task is suspended in a send that never returns
Stuck(t) == tasks[t].pc = "sending" /\ tasks[t].cur \in Hung

SlowConnect == tasks = <<>> /\ \E ws \in Channels : handle_websocket(ws, TRUE)

SlowSetDeviceInfo ==
    /\ Len(tasks) < MaxSlowTasks
    /\ \E info \in Infos : update_device_info(info)

\* the steps of broadcast task t
SlowTaskStep(t) ==
    /\ t <= Len(tasks)
    /\ ~Stuck(t)
    /\ \/ broadcast_empty(t)
       \/ \E ws \in Channels : broadcast_send(t, ws, TRUE)
       \/ broadcast_finish(t)

SlowBroadcast == \E t \in 1..MaxSlowTasks : SlowTaskStep(t)

NextSlow ==
    \/ SlowConnect
    \/ SlowSetDeviceInfo
    \/ SlowBroadcast

SpecSlow ==
    /\ InitComplete /\ [][NextSlow]_vars
    /\ \A t \in 1..MaxSlowTasks : WF_vars(SlowTaskStep(t))

(***************************************************************************)
(* Vocabulary of the properties.                                           *)
(***************************************************************************)
\* every broadcast task created so far has ended
Quiet == \A t \in 1..Len(tasks) : tasks[t].pc \in {"done", "crashed"}

\* the channel is connected and registered
Live(ws) == ws_pc[ws] = "open" /\ ws \in websockets

\* the positions of the channel's inbox that hold a message written by task t
WrittenBy(ws, t) == {i \in 1..Len(inbox[ws]) : inbox[ws][i].task = t}

\* the ids of the records in the snapshot of an init message
SnapshotIds(m) == {m.data.tool_calls[k].id : k \in 1..Len(m.data.tool_calls)}

\* message i of the channel shows the viewer the record id
Shows(ws, i, id) ==
    \/ inbox[ws][i].type = "init" /\ id \in SnapshotIds(inbox[ws][i])
    \/ inbox[ws][i].type = "tool_call" /\ inbox[ws][i].data.id = id

\* the channel's messages tell of record id being created before they tell of
\* its completion
CreatedBeforeUpdated(ws) ==
    \A j \in 1..Len(inbox[ws]) :
        inbox[ws][j].type = "tool_complete"
            => \E i \in 1..(j - 1) : Shows(ws, i, inbox[ws][j].data.id)

(***************************************************************************)
(* C1: a viewer registered before any mutation and still connected, once   *)
(* every scheduled broadcast has ended, has received one init message      *)
(* first, then the message of every mutation exactly once (none lost, none *)
(* twice), the record-created of a record before its record-updated.       *)
(***************************************************************************)
C1_DeltasExactlyOnce ==
    \A ws \in Channels :
        (Live(ws) /\ joined[ws] = 0 /\ Quiet)
            => /\ WrittenBy(ws, 0) = {1}
               /\ \A t \in 1..Len(tasks) : Cardinality(WrittenBy(ws, t)) = 1
               /\ CreatedBeforeUpdated(ws)

(***************************************************************************)
(* C2: the init snapshot of a viewer registered when N records exist lists *)
(* the latest min(N,50) of them, and every later message on the channel    *)
(* belongs to a mutation made after the registration.                      *)
(***************************************************************************)
C2_SnapshotThenLaterDeltas ==
    \A ws \in Channels :
        inbox[ws] # <<>>
            => LET snap == inbox[ws][1].data
                   n == IF snap.total_calls < max_calls THEN snap.total_calls ELSE max_calls
                   k == IF n < STATE_CALLS THEN n ELSE STATE_CALLS
               IN  /\ inbox[ws][1].type = "init"
                   /\ Len(snap.tool_calls) = k
                   /\ \A i \in 1..k : snap.tool_calls[i].id = snap.total_calls - k + i
                   /\ \A i \in 2..Len(inbox[ws]) : inbox[ws][i].task > joined[ws]

(***************************************************************************)
(* C3: on every channel the first message is init, and no record-updated   *)
(* is delivered for a record that neither the init snapshot nor an earlier *)
(* record-created message showed to the viewer.                            *)
(***************************************************************************)
C3_InitFirstNoUnknownRecord ==
    \A ws \in Channels :
        /\ inbox[ws] # <<>> => inbox[ws][1].type = "init"
        /\ CreatedBeforeUpdated(ws)

(***************************************************************************)
(* C4: with a capacity N = max_calls >= 1, the store retains exactly the   *)
(* min(total, N) most recently created records, in creation order, where   *)
(* total = call_counter is the number of add_tool_call calls ever made;    *)
(* call_counter never decreases, eviction included.                        *)
(***************************************************************************)
Retained ==
    LET k == IF call_counter < max_calls THEN call_counter ELSE max_calls
    IN  [i \in 1..k |-> call_counter - k + i]

CompleteStep == lastCall'.seq # lastCall.seq /\ lastCall'.op = "complete_tool_call"

C5_SecondCompleteRejected ==
    [][(CompleteStep /\ calls[lastCall'.id].status # "pending")
          => /\ lastCall'.raised
             /\ calls' = calls
             /\ last_screenshot' = last_screenshot
             /\ recording_active' = recording_active
             /\ tasks' = tasks]_vars

(***************************************************************************)
(* C6: a Record is created pending, and once it is success or error        *)
(* nothing changes its status, result, error or duration_ms again.         *)
(***************************************************************************)
C6_TerminalIsFinal ==
    [][/\ \A id \in 1..Len(calls) :
             calls[id].status # "pending" => calls'[id] = calls[id]
       /\ \A id \in (Len(calls) + 1)..Len(calls') : calls'[id].status = "pending"]_vars

(***************************************************************************)
(* C7: a pending Record has no result, no error and no duration_ms; a      *)
(* success or error Record has exactly one of result and error.            *)
(***************************************************************************)
C7_ExactlyOneOfResultError ==
    \A id \in 1..Len(calls) :
        IF calls[id].status = "pending"
        THEN calls[id].result = None /\ calls[id].error = None
                /\ calls[id].duration_ms = NoDuration
        ELSE (calls[id].result # None) # (calls[id].error # None)

(***************************************************************************)
(* C8: result is present only on a success Record and error only on an     *)
(* error Record.                                                           *)
(***************************************************************************)
C8_ResultXorError ==
    \A id \in 1..Len(calls) :
        /\ calls[id].result # None => calls[id].status = "success"
        /\ calls[id].error # None => calls[id].status = "error"

(***************************************************************************)
(* C10: a successful complete of a get_screenshot record sets              *)
(* last_screenshot to the trimmed remainder of the first line of result    *)
(* that starts with "Screenshot saved: ", and leaves it unchanged when no  *)
(* line starts with that marker.                                           *)
(***************************************************************************)
\* the marker as the claim words it
ClaimedMarker == PrefixLit \o <<" ">>

\* the lines of result that carry the claimed marker
ClaimedLines(result) ==
    IF result = None THEN <<>>
    ELSE SelectSeq(Split(result, <<NL>>), LAMBDA line : StartsWith(line, ClaimedMarker))

C10_ScreenshotPath ==
    [][(/\ CompleteStep
        /\ calls'[lastCall'.id].tool_name = "get_screenshot"
        /\ calls'[lastCall'.id].status = "success")
          => LET lines == ClaimedLines(lastCall'.result)
             IN  last_screenshot' =
                    IF lines = <<>> THEN last_screenshot
                    ELSE Strip(SubSeq(lines[1], Len(ClaimedMarker) + 1, Len(lines[1])))]_vars

(***************************************************************************)
(* C9: when a broadcast over several channels in which a send raised comes *)
(* to its end, every other channel registered at its start and its end has *)
(* received the message, the channels whose send raised are out of the     *)
(* registry, every other channel is still in it, and no call of the        *)
(* mutation API has raised.                                                *)
(***************************************************************************)
C9_FailedChannelPruned ==
    [][\A t \in 1..Len(tasks) :
          (/\ tasks[t].pc = "sending" /\ tasks'[t].pc # "sending"
           /\ Cardinality(tasks[t].it_start) >= 2 /\ tasks[t].dead # {})
             => /\ \A ws \in (tasks[t].it_start \cap websockets) \ tasks[t].dead :
                      WrittenBy(ws, t) # {}
                /\ websockets' \cap tasks[t].dead = {}
                /\ websockets \ tasks[t].dead \subseteq websockets'
                /\ lastCall' = lastCall /\ ~lastCall.raised]_vars

\* What holds of the code: a send that raises does not end the broadcast, and a
\* broadcast that returns over a registry equal to the one it started with has
\* written the message to every channel whose send did not raise and leaves
\* exactly those channels registered.
FailureIsolatedWhenUndisturbed ==
    [][\A t \in 1..Len(tasks) :
          /\ tasks'[t].dead \ tasks[t].dead # {} => tasks'[t].pc = "sending"
          /\ (tasks[t].pc = "sending" /\ tasks'[t].pc # "sending"
                 /\ websockets = tasks[t].it_start)
                => /\ tasks'[t].pc = "done"
                   /\ \A ws \in tasks[t].it_start \ tasks[t].dead : WrittenBy(ws, t) # {}
                   /\ \A ws \in tasks[t].dead : WrittenBy(ws, t) = {}
                   /\ websockets' = tasks[t].it_start \ tasks[t].dead
                   /\ lastCall' = lastCall /\ ~lastCall.raised]_vars

(***************************************************************************)
(* C11: recording_active starts False; a complete that leaves a            *)
(* start_recording record success sets it True, one that leaves a          *)
(* stop_recording record success sets it False, and every other step       *)
(* (add_tool_call, a complete to error or of another tool, the setters,    *)
(* get_state, a viewer connecting or leaving, a broadcast) leaves it as it *)
(* was.                                                                    *)
(***************************************************************************)
C11_RecordingFlag ==
    /\ recording_active = FALSE
    /\ [][recording_active' =
             IF CompleteStep /\ calls'[lastCall'.id].status = "success"
                             /\ calls'[lastCall'.id].tool_name = "start_recording"
             THEN TRUE
             ELSE IF CompleteStep /\ calls'[lastCall'.id].status = "success"
                                  /\ calls'[lastCall'.id].tool_name = "stop_recording"
             THEN FALSE
             ELSE recording_active]_vars

\* a stop_recording record was completed to error while recording was active
C11_Witness ==
    /\ recording_active
    /\ lastCall.op = "complete_tool_call"
    /\ calls[lastCall.id].tool_name = "stop_recording"
    /\ calls[lastCall.id].status = "error"

(***************************************************************************)
(* C12: get_state returns, in creation order, the serialized form of the   *)
(* last min(len(tool_calls), 50) retained records, whatever max_calls is,  *)
(* with the current device_info, wda_status, last_screenshot,              *)
(* recording_active and call_counter; the init message of a connecting     *)
(* viewer and the response of the pull interface carry that snapshot of    *)
(* the state they are evaluated in.                                        *)
(***************************************************************************)
\* the snapshot the claim describes, of the current state
LatestSnapshot ==
    LET n == Len(tool_calls)
        k == IF n < STATE_CALLS THEN n ELSE STATE_CALLS
    IN  [tool_calls |-> [i \in 1..k |-> to_dict(calls[tool_calls[n - k + i]])],
         device_info |-> device_info,
         wda_status |-> wda_status,
         last_screenshot |-> last_screenshot,
         recording_active |-> recording_active,
         total_calls |-> call_counter]

C12_SnapshotLatest50 ==
    /\ [](get_state = LatestSnapshot)
    /\ [][/\ response' # response => response' = <<LatestSnapshot>>
           /\ \A ws \in Channels :
                 ws_pc[ws] = "new" /\ ws_pc'[ws] = "open"
                    => inbox'[ws] = <<[type |-> "init", data |-> LatestSnapshot,
                                       task |-> 0]>>]_vars

\* more than 50 records are retained and both a viewer and the pull interface
\* were given the snapshot of that state
C12_Witness ==
    /\ Len(tool_calls) > STATE_CALLS
    /\ response # <<>> /\ response[1].total_calls = call_counter
    /\ inbox[1] # <<>> /\ inbox[1][1].data.total_calls = call_counter
    /\ Len(inbox[1][1].data.tool_calls) = STATE_CALLS

(***************************************************************************)
(* C13: update_device_info(info) leaves device_info equal to info and      *)
(* update_wda_status(status) leaves wda_status equal to status (nothing of *)
(* the previous value is kept), each creates exactly one broadcast task,   *)
(* of type device_info / wda_status and carrying the argument, and each    *)
(* leaves the records, call_counter, last_screenshot, recording_active,    *)
(* the other dict and the registry unchanged.                              *)
(***************************************************************************)
\* this step is a call of the setter op
SetterStep(op) == lastCall'.seq # lastCall.seq /\ lastCall'.op = op

\* this step creates exactly one broadcast task, of the given type and data
SchedulesOne(type, data) ==
    /\ Len(tasks') = Len(tasks) + 1
    /\ SubSeq(tasks', 1, Len(tasks)) = tasks
    /\ tasks'[Len(tasks')].type = type
    /\ tasks'[Len(tasks')].data = data
    /\ tasks'[Len(tasks')].pc = "ready"

C13_SettersReplace ==
    [][/\ SetterStep("update_device_info")
             => /\ device_info' = lastCall'.arg
                /\ SchedulesOne("device_info", lastCall'.arg)
                /\ UNCHANGED <<max_calls, calls, tool_calls, call_counter,
                               last_screenshot, recording_active, wda_status,
                               websockets>>
       /\ SetterStep("update_wda_status")
             => /\ wda_status' = lastCall'.arg
                /\ SchedulesOne("wda_status", lastCall'.arg)
                /\ UNCHANGED <<max_calls, calls, tool_calls, call_counter,
                               last_screenshot, recording_active, device_info,
                               websockets>>]_vars

\* a setter has replaced a dict while the other dict is set, a record exists
\* and a viewer is registered
C13_Witness ==
    /\ lastCall.op = "update_device_info"
    /\ device_info = lastCall.arg
    /\ wda_status \notin {EmptyDict, device_info}
    /\ call_counter >= 1
    /\ websockets # {}

(***************************************************************************)
(* C14: the discard of the finally clause takes the channel out of the     *)
(* registry and nothing else, and when the channel is not in the registry  *)
(* (a failed broadcast has pruned it) it raises nothing and leaves the     *)
(* registry as it is; the pruning of a broadcast ("-= dead_ws") likewise   *)
(* takes out its dead channels, those already gone included, and returns;  *)
(* a channel that was unregistered stays out of the registry.              *)
(***************************************************************************)
C14_UnregisterIdempotent ==
    /\ [](\A ws \in Channels : left[ws].how # "" => ws \notin websockets)
    /\ [][/\ \A ws \in Channels :
                 ws_pc[ws] = "open" /\ ws_pc'[ws] # "open"
                    => /\ ws_pc'[ws] = "closed"
                       /\ websockets' = websockets \ {ws}
                       /\ ws \notin websockets => websockets' = websockets
           /\ \A t \in 1..Len(tasks) :
                 tasks[t].pc = "sending" /\ tasks'[t].pc = "done"
                    => websockets' = websockets \ tasks[t].dead]_vars

\* a channel that a failed broadcast had pruned has been unregistered by its
\* handler as well
C14_Witness == \E ws \in Channels : left[ws].how = "absent" /\ ws_pc[ws] = "closed"

(***************************************************************************)
(* C15: the ids of the ToolCalls ever created are strictly increasing in   *)
(* creation order (hence no two are equal and none is assigned again, the  *)
(* ids of evicted records included), and add_tool_call returns a ToolCall  *)
(* whose id is greater than every id assigned before.                      *)
(***************************************************************************)
C15_IdsUniqueIncreasing ==
    /\ [](\A i, j \in 1..Len(calls) : i < j => calls[i].id < calls[j].id)
    /\ [][Len(calls') > Len(calls)
             => /\ lastCall'.id = calls'[Len(calls')].id
                /\ \A i \in 1..Len(calls) : calls[i].id < lastCall'.id]_vars

\* a record was begun after two records had been evicted
C15_Witness ==
    /\ lastCall.op = "add_tool_call"
    /\ max_calls >= 1
    /\ Len(calls) >= Len(tool_calls) + 2

(***************************************************************************)
(* C16: every tool_call message written to a channel carries the record    *)
(* with status pending and every tool_complete message carries it with     *)
(* status success or error, also when complete_tool_call has run before    *)
(* the tool_call message is written.                                       *)
(***************************************************************************)
C16_EventStatus ==
    \A ws \in Channels : \A i \in 1..Len(inbox[ws]) :
        /\ inbox[ws][i].type = "tool_call" => inbox[ws][i].data.status = "pending"
        /\ inbox[ws][i].type = "tool_complete"
              => inbox[ws][i].data.status \in {"success", "error"}

\* a channel was sent the tool_call message of a record after the tool_complete
\* message of that record, and so after complete_tool_call had run
C16_Witness ==
    \E ws \in Channels : \E i, j \in 1..Len(inbox[ws]) :
        /\ i < j
        /\ inbox[ws][i].type = "tool_complete"
        /\ inbox[ws][j].type = "tool_call"
        /\ inbox[ws][j].data.id = inbox[ws][i].data.id
        /\ calls[inbox[ws][j].data.id].status # "pending"

(***************************************************************************)
(* C17: nothing is written to a channel that is not in the registry (one   *)
(* that was unregistered stays so); a channel that registers is sent the   *)
(* init message of the state of that moment first; and when a viewer has   *)
(* left and a channel registers later, that channel is never sent the      *)
(* message of a mutation made in between, while the viewer was absent.     *)
(***************************************************************************)
\* the part about the time of absence and about the fresh init message
NothingOnceUnregistered ==
    [][\A ws \in Channels :
          IF ws_pc[ws] = "new" /\ ws_pc'[ws] # "new"
          THEN ws_pc'[ws] = "open"
                  => /\ Len(inbox'[ws]) = 1
                     /\ inbox'[ws][1].type = "init"
                     /\ inbox'[ws][1].data = get_state
          ELSE ws \notin websockets => inbox'[ws] = inbox[ws]]_vars

\* task t was created after the channel old was unregistered and before the
\* channel ws was registered
CreatedWhileAbsent(t, old, ws) ==
    left[old].how # "" /\ left[old].tasks < t /\ t <= joined[ws]

C17_NothingQueuedWhileAbsent ==
    /\ NothingOnceUnregistered
    /\ [](\A old \in Channels, ws \in Channels : \A i \in 1..Len(inbox[ws]) :
             ~CreatedWhileAbsent(inbox[ws][i].task, old, ws))

(***************************************************************************)
(* C18: a channel that was registered before two mutations were made is    *)
(* sent their messages in the order of the mutations; in particular no     *)
(* channel is sent the tool_complete message of a record before the        *)
(* tool_call message of that record.                                       *)
(***************************************************************************)
C18_FifoPerViewer ==
    \A ws \in Channels : \A i, j \in 1..Len(inbox[ws]) :
        (i < j /\ inbox[ws][i].task > joined[ws] /\ inbox[ws][j].task > joined[ws])
           => /\ inbox[ws][i].task < inbox[ws][j].task
              /\ ~(/\ inbox[ws][i].type = "tool_complete"
                    /\ inbox[ws][j].type = "tool_call"
                    /\ inbox[ws][j].data.id = inbox[ws][i].data.id)

(***************************************************************************)
(* C19: when a broadcast has started, every channel that was registered    *)
(* then and is not the one whose send never returns is eventually sent the *)
(* message, for the first broadcast and for every later one.               *)
(***************************************************************************)
C19_SlowChannelIsolated ==
    \A t \in 1..MaxSlowTasks : \A ws \in Channels \ Hung :
        (t <= Len(tasks) /\ tasks[t].pc = "sending" /\ ws \in tasks[t].it_start)
            ~> (WrittenBy(ws, t) # {})

(***************************************************************************)
(* C20: a broadcast during which the registry has changed (a viewer        *)
(* registered or unregistered, a channel was pruned) still returns: it     *)
(* does not end by an exception, every channel that was registered when it *)
(* started and still is, and whose send did not raise, has been sent the   *)
(* message, and the channels whose send raised are pruned.                 *)
(***************************************************************************)
C20_RegistryChangeTolerated ==
    [][\A t \in 1..Len(tasks) :
          (/\ tasks[t].pc = "sending" /\ tasks'[t].pc # "sending"
           /\ websockets # tasks[t].it_start)
             => /\ tasks'[t].pc = "done"
                /\ \A ws \in (tasks[t].it_start \cap websockets) \ tasks[t].dead :
                      WrittenBy(ws, t) # {}
                /\ websockets' \cap tasks[t].dead = {}]_vars

(***************************************************************************)
(* C21: complete_tool_call on a pending record, whatever the tool name,    *)
(* the result and the error, returns without raising, leaves the record    *)
(* success or error with duration_ms set, and creates exactly one          *)
(* tool_complete broadcast task carrying the record.                       *)
(***************************************************************************)
C21_CompleteNeverRaises ==
    [][(CompleteStep /\ calls[lastCall'.id].status = "pending")
          => /\ ~lastCall'.raised
             /\ calls'[lastCall'.id].status \in {"success", "error"}
             /\ calls'[lastCall'.id].duration_ms # NoDuration
             /\ SchedulesOne("tool_complete", to_dict(calls'[lastCall'.id]))]_vars

\* C22: last_screenshot is changed only by the successful completion of a
\* get_screenshot record.  A step that changes last_screenshot is a
\* complete_tool_call that leaves a get_screenshot record with status
\* "success"; a complete ending with status "error", a complete of a record
\* of any other name and every other operation leave it unchanged.
C22_ScreenshotOnlyOnSuccess ==
    [][last_screenshot' # last_screenshot
          => /\ CompleteStep
             /\ calls'[lastCall'.id].tool_name = "get_screenshot"
             /\ calls'[lastCall'.id].status = "success"]_vars

(***************************************************************************)
(* The scheduling specification: the four mutation operations are called   *)
(* while viewers connect and leave, sends succeed or raise, and broadcast  *)
(* tasks stay suspended in a send for as long as they like.  A call of the *)
(* mutation API is possible in every such state.                           *)
(***************************************************************************)
SyncBegin ==
    /\ call_counter < MaxBegins /\ lastCall.seq < MaxSyncCalls
    /\ \E n \in {"get_screenshot", "tap"} : add_tool_call(n)

SyncComplete ==
    /\ lastCall.seq < MaxSyncCalls
    /\ \E id \in 1..call_counter, r \in {R_ok, R_nosep}, e \in {None, E_boom}, d \in Durations :
          complete_tool_call(id, r, e, d)

SyncSetDeviceInfo ==
    /\ lastCall.seq < MaxSyncCalls
    /\ update_device_info({<<"name", "iPhone">>})

SyncSetWdaStatus ==
    /\ lastCall.seq < MaxSyncCalls
    /\ update_wda_status({<<"udid", "A1">>})

SyncSend ==
    \E t \in 1..Len(tasks), ws \in Channels, ok \in BOOLEAN : broadcast_send(t, ws, ok)

NextSync ==
    \/ SyncBegin
    \/ SyncComplete
    \/ SyncSetDeviceInfo
    \/ SyncSetWdaStatus
    \/ Connect
    \/ Disconnect
    \/ BroadcastEmpty
    \/ SyncSend
    \/ BroadcastFinish
    \/ BroadcastCrash

SpecSync == InitComplete /\ [][NextSync]_vars

\* a call of one of the four mutation operations returns (or raises) in this step
MutationStep ==
    /\ lastCall'.seq # lastCall.seq
    /\ lastCall'.op \in {"add_tool_call", "complete_tool_call",
                         "update_device_info", "update_wda_status"}

\* C23: add_tool_call, complete_tool_call, update_device_info and
\* update_wda_status update the store before they return and only schedule
\* their broadcast.  In the step of such a call no message is written to any
\* channel, the registry and every broadcast task already scheduled are left
\* as they were, whatever the state of the channels (none registered, one
\* whose send raised, a task suspended in a send), and exactly one new
\* broadcast task is created, which has not started.
C23_MutationsOnlySchedule ==
    [][MutationStep
          => /\ inbox' = inbox
             /\ websockets' = websockets
             /\ Len(tasks') = Len(tasks) + 1
             /\ SubSeq(tasks', 1, Len(tasks)) = tasks
             /\ tasks'[Len(tasks')].pc = "ready"]_vars

\* C24: for every capacity max_calls >= 0 given to the constructor, 0 and 1
\* included, and every sequence of add_tool_call calls, the number of
\* retained records never exceeds max_calls once add_tool_call has returned.
C24_NeverAboveCapacity == Len(tool_calls) <= max_calls

(***************************************************************************)
(* The eviction specification: no viewer is connected; under a small       *)
(* capacity, records of the tools with a derived-state rule are begun past *)
(* the capacity and the handle of any record ever returned, retained or    *)
(* evicted, is completed.                                                  *)
(***************************************************************************)
InitEvict == InitState(1..MaxCap)

EvictBegin ==
    /\ call_counter < MaxEvictBegins /\ lastCall.seq < MaxEvictCalls
    /\ \E n \in {"get_screenshot", "start_recording", "stop_recording"} : add_tool_call(n)

EvictComplete ==
    /\ lastCall.seq < MaxEvictCalls
    /\ \E id \in 1..call_counter, r \in {R_shot_a, R_nosep}, e \in {None, E_boom}, d \in Durations :
          complete_tool_call(id, r, e, d)

NextEvict ==
    \/ EvictBegin
    \/ EvictComplete
    \/ BroadcastEmpty

SpecEvict == InitEvict /\ [][NextEvict]_vars

\* the record with this id is retained
InStore(id) == \E i \in 1..Len(tool_calls) : tool_calls[i] = id

\* C25: a pending record can be evicted, and complete_tool_call on the handle
\* of an evicted record leaves tool_calls and call_counter unchanged (the
\* record is not inserted again), makes the record success or error, applies
\* the derived-state rules (a successful get_screenshot with a marker line
\* sets last_screenshot, a successful start_recording / stop_recording sets
\* recording_active) and schedules one tool_complete broadcast carrying the
\* record, whose id is not in the store.
C25_CompleteOfEvicted ==
    [][(CompleteStep /\ ~InStore(lastCall'.id))
          => LET id == lastCall'.id
                 c == calls'[id]
             IN  /\ tool_calls' = tool_calls
                 /\ call_counter' = call_counter
                 /\ c.status \in {"success", "error"}
                 /\ (c.status = "success" /\ c.tool_name = "get_screenshot"
                        /\ lastCall'.result = R_shot_a) => last_screenshot' = P_a
                 /\ (c.status = "success" /\ c.tool_name = "start_recording")
                        => recording_active'
                 /\ (c.status = "success" /\ c.tool_name = "stop_recording")
                        => ~recording_active'
                 /\ SchedulesOne("tool_complete", to_dict(c))]_vars

\* the ids of the records of a snapshot are consecutive and end at the
\* total_calls the snapshot carries
ContiguousSuffix(snap) ==
    LET n == Len(snap.tool_calls)
    IN  \A k \in 1..n : snap.tool_calls[k].id = snap.total_calls - n + k

\* C26: in every reachable state the retained records are in strictly
\* increasing order of id and their ids are consecutive and end at
\* call_counter: with L = Len(tool_calls) they are call_counter-L+1 ..
\* call_counter; L = min(call_counter, max_calls) when max_calls >= 1; and the
\* records of every snapshot (the current one, the response of the pull
\* interface, the init message of a viewer) are a consecutive run of ids
\* ending at the call_counter of the state the snapshot was taken in.
C26_RetainedContiguous ==
    LET L == Len(tool_calls)
    IN  /\ \A i \in 1..L : tool_calls[i] = call_counter - L + i
        /\ \A i, j \in 1..L : i < j => tool_calls[i] < tool_calls[j]
        /\ max_calls >= 1
              => L = IF call_counter < max_calls THEN call_counter ELSE max_calls
        /\ ContiguousSuffix(get_state)
        /\ \A i \in 1..Len(response) : ContiguousSuffix(response[i])
        /\ \A ws \in Channels : \A i \in 1..Len(inbox[ws]) :
              inbox[ws][i].type = "init" => ContiguousSuffix(inbox[ws][i].data)

\* records were evicted and the pull interface then returned the retained ones
C26_Witness ==
    /\ max_calls = MaxCap /\ call_counter >= MaxCap + 2
    /\ response # <<>> /\ response[1].total_calls = call_counter
    /\ Len(response[1].tool_calls) = MaxCap
    /\ response[1].tool_calls[1].id = call_counter - MaxCap + 1

\* C27: on complete_tool_call of a pending record the outcome is decided by
\* the error argument alone.  A non-empty error gives status "error" with the
\* error stored and result left None, also when a result is supplied; an
\* error of None or "" gives status "success" with result stored as given
\* (possibly None) and error left None.
C27_OutcomeByErrorAlone ==
    [][(CompleteStep /\ calls[lastCall'.id].status = "pending")
          => LET c == calls'[lastCall'.id]
             IN  IF lastCall'.error \notin {None, <<>>}
                 THEN c.status = "error" /\ c.error = lastCall'.error /\ c.result = None
                 ELSE c.status = "success" /\ c.result = lastCall'.result
                                          /\ c.error = None]_vars

\* a pending record was completed with both a result and a non-empty error
C27_Witness ==
    /\ lastCall.op = "complete_tool_call"
    /\ lastCall.result = R_ok /\ lastCall.error = E_boom
    /\ calls[lastCall.id] = [ToolCall(lastCall.id, calls[lastCall.id].tool_name)
                                EXCEPT !.status = "error", !.error = E_boom,
                                       !.duration_ms = calls[lastCall.id].duration_ms]

(***************************************************************************)
(* The dashboard client (the script of the page): the list toolCalls it    *)
(* builds from the messages of its WebSocket.                              *)
(***************************************************************************)
\* Array.prototype.reverse
Reverse(xs) == [i \in 1..Len(xs) |-> xs[Len(xs) + 1 - i]]

\* handleMessage: the value of toolCalls after the message, newest first
handleMessage(toolCalls, msg) ==
    IF msg.type = "init" THEN Reverse(msg.data.tool_calls)
    ELSE IF msg.type = "tool_call"
    THEN LET unshifted == <<msg.data>> \o toolCalls
         IN  IF Len(unshifted) > CLIENT_CALLS
             THEN SubSeq(unshifted, 1, Len(unshifted) - 1) ELSE unshifted
    ELSE IF msg.type = "tool_complete"
    THEN LET found == {i \in 1..Len(toolCalls) : toolCalls[i].id = msg.data.id}
         IN  IF found = {} THEN toolCalls
             ELSE LET idx == CHOOSE i \in found : \A j \in found : i <= j
                  IN  [toolCalls EXCEPT ![idx] = msg.data]
    ELSE toolCalls

\* toolCalls after the first n messages written to the channel
RECURSIVE ClientCalls(_, _)
ClientCalls(ws, n) ==
    IF n = 0 THEN <<>> ELSE handleMessage(ClientCalls(ws, n - 1), inbox[ws][n])

\* the list the viewer of the channel displays
toolCalls(ws) == ClientCalls(ws, Len(inbox[ws]))

\* C28: the list the dashboard client builds from the messages it receives
\* never holds two entries with the same record id, and once every broadcast
\* task has ended every entry of a connected viewer's list has the status of
\* the ToolCall with that id in the store, for every interleaving of the
\* viewer's registration with add_tool_call / complete_tool_call and their
\* broadcasts.
C28_ClientListFaithful ==
    \A ws \in Channels :
        LET list == toolCalls(ws)
        IN  /\ \A i, j \in 1..Len(list) : list[i].id = list[j].id => i = j
            /\ (Quiet /\ Live(ws))
                  => \A i \in 1..Len(list) : list[i].status = calls[list[i].id].status

(***************************************************************************)
(* The serialization specification: records are completed with results     *)
(* shorter than, as long as and longer than the 500 characters to_dict     *)
(* keeps, while a viewer connects and leaves and the pull interface is     *)
(* queried.                                                                *)
(***************************************************************************)
\* a text of n characters
Text(n) == [i \in 1..n |-> "x"]

LongTexts == {R_ok, Text(RESULT_CAP), Text(RESULT_CAP + 1), Text(RESULT_CAP + MaxOver)}

LongBegin ==
    /\ call_counter < MaxBegins /\ OpsMayCall
    /\ add_tool_call("tap")

LongComplete ==
    /\ OpsMayCall
    /\ \E id \in 1..call_counter, r \in LongTexts, d \in Durations :
          complete_tool_call(id, r, None, d)

NextLong ==
    \/ LongBegin
    \/ LongComplete
    \/ OpsConnect
    \/ Disconnect
    \/ ApiState
    \/ BroadcastEmpty
    \/ BroadcastSend
    \/ BroadcastFinish
    \/ BroadcastCrash

SpecLong == InitComplete /\ [][NextLong]_vars

\* the result a serialized record carries for a stored result
Transported(result) ==
    IF result = None \/ Len(result) <= RESULT_CAP THEN result
    ELSE SubSeq(result, 1, RESULT_CAP)

\* the serialized record is the transported form of the stored ToolCall
SerializedFrom(d, c) ==
    /\ d.result = Transported(c.result)
    /\ d.result # None => Len(d.result) <= RESULT_CAP

\* C29: the result is cut only when a record is serialized.  Every
\* serialized record (in an init message, in the tool_call and tool_complete
\* messages, in the response of the pull interface) has a result of at most
\* 500 characters, equal to the stored result when that has at most 500 and
\* to its first 500 characters otherwise, while complete_tool_call stores the
\* result in full and no serialization changes the stored ToolCall.
C29_CutOnlyWhenSerialized ==
    /\ [](\A k \in 1..Len(get_state.tool_calls) :
            SerializedFrom(get_state.tool_calls[k], calls[get_state.tool_calls[k].id]))
    /\ [](\A ws \in Channels : \A i \in 1..Len(inbox[ws]) :
            LET m == inbox[ws][i]
            IN  IF m.type = "init"
                THEN \A k \in 1..Len(m.data.tool_calls) :
                        m.data.tool_calls[k].result # None
                           => Len(m.data.tool_calls[k].result) <= RESULT_CAP
                ELSE m.data.result # None => Len(m.data.result) <= RESULT_CAP)
    /\ [][/\ Len(tasks') > Len(tasks)
              => SerializedFrom(tasks'[Len(tasks')].data, calls'[tasks'[Len(tasks')].data.id])
          /\ response' # response
              => \A k \in 1..Len(response'[1].tool_calls) :
                    SerializedFrom(response'[1].tool_calls[k],
                                   calls[response'[1].tool_calls[k].id])
          /\ \A ws \in Channels :
                ws_pc[ws] = "new" /\ ws_pc'[ws] = "open"
                   => \A k \in 1..Len(inbox'[ws][1].data.tool_calls) :
                         SerializedFrom(inbox'[ws][1].data.tool_calls[k],
                                        calls[inbox'[ws][1].data.tool_calls[k].id])
          /\ CompleteStep => calls'[lastCall'.id].result = lastCall'.result
          /\ calls' # calls => MutationStep]_vars

\* a record holds a result of more than 500 characters in the store, and a
\* viewer has been sent its first 500 in the tool_complete message and the
\* pull interface has returned the same
C29_Witness ==
    \E id \in 1..Len(calls) :
        /\ calls[id].result # None /\ Len(calls[id].result) > RESULT_CAP
        /\ \E i \in 1..Len(inbox[1]) :
              /\ inbox[1][i].type = "tool_complete" /\ inbox[1][i].data.id = id
              /\ inbox[1][i].data.result = SubSeq(calls[id].result, 1, RESULT_CAP)
        /\ response # <<>>
        /\ \E k \in 1..Len(response[1].tool_calls) :
              /\ response[1].tool_calls[k].id = id
              /\ Len(response[1].tool_calls[k].result) = RESULT_CAP

====
